---------------------------- MODULE Spec2Model ----------------------------
(***************************************************************************)
(* A model of src/main.py: the Telegram image handler that turns OCR text  *)
(* blocks into item names, asks the Steam market for a price of each name  *)
(* (bounded retries, error back-off, one fallback query), accumulates the  *)
(* rows and totals, and writes the report file.                            *)
(*                                                                         *)
(* Strings are sequences of characters; a character is a one-character     *)
(* TLA+ string, or "U+XXXX" for a code point outside ASCII.  Durations are *)
(* in tenths of a second.  Python's None is the empty tuple and a present  *)
(* value x is <<x>>.  A float is an IEEE 754 double, m * 2^e with the bits *)
(* of m as a sequence, and float() and + round as Python's do.             *)
(***************************************************************************)
EXTENDS Integers, Sequences, FiniteSets, TLC

(***************************************************************************)
(* SETTINGS (src/main.py:35-45)                                            *)
(***************************************************************************)
SUCCESS_DELAY == 25

ERROR_DELAY == 60

MAX_RETRIES == 3

COOLDOWN_EVERY == 20

COOLDOWN_TIME == 120

(***************************************************************************)
(* Bounds of the model                                                     *)
(***************************************************************************)
\* the longest list of text blocks the OCR engine returns
MaxItems == 2

\* the longest list of text blocks in the runs that reach a cooldown
MaxLongItems == 41

\* the longest list of text blocks in the runs over unusual text blocks
MaxNameItems == 1

\* the longest list of text blocks in the runs that add up small prices
MaxSumItems == 3

(***************************************************************************)
(* Python values                                                           *)
(***************************************************************************)
None == <<>>

Some(x) == <<x>>

Max(a, b) == IF a >= b THEN a ELSE b

Digits == {"0", "1", "2", "3", "4", "5", "6", "7", "8", "9"}

\* str.isspace() on the characters of the model's alphabet (U+00A0 is
\* NO-BREAK SPACE, which Python counts as whitespace)
Whitespace == {" ", "\t", "\n", "U+00A0"}

DigitVal(c) ==
    CASE c = "0" -> 0 [] c = "1" -> 1 [] c = "2" -> 2 [] c = "3" -> 3
      [] c = "4" -> 4 [] c = "5" -> 5 [] c = "6" -> 6 [] c = "7" -> 7
      [] c = "8" -> 8 [] c = "9" -> 9

RECURSIVE lstrip(_)
lstrip(s) ==
    IF s # <<>> /\ s[1] \in Whitespace THEN lstrip(Tail(s)) ELSE s

RECURSIVE rstrip(_)
rstrip(s) ==
    IF s # <<>> /\ s[Len(s)] \in Whitespace
    THEN rstrip(SubSeq(s, 1, Len(s) - 1))
    ELSE s

\* str.strip()
strip(s) == rstrip(lstrip(s))

\* str.replace(old, new) for a non-empty old: leftmost, non-overlapping
RECURSIVE replace(_, _, _)
replace(s, old, new) ==
    IF Len(s) < Len(old) THEN s
    ELSE IF SubSeq(s, 1, Len(old)) = old
         THEN new \o replace(SubSeq(s, Len(old) + 1, Len(s)), old, new)
         ELSE <<s[1]>> \o replace(Tail(s), old, new)

\* str.count(c) for a single character c
RECURSIVE count(_, _)
count(s, c) ==
    IF s = <<>> THEN 0
    ELSE (IF s[1] = c THEN 1 ELSE 0) + count(Tail(s), c)

\* the length of the longest prefix of s made of characters of set S
RECURSIVE SpanLen(_, _)
SpanLen(s, S) ==
    IF s # <<>> /\ s[1] \in S THEN 1 + SpanLen(Tail(s), S) ELSE 0

(***************************************************************************)
(* Natural numbers of any size: the bits of the number, lowest first,      *)
(* without zeros at the high end; 0 is the empty sequence                  *)
(***************************************************************************)
\* the place of the highest 1 of the bits a, 0 when there is none
Top(a) ==
    IF \E i \in 1..Len(a) : a[i] = 1
    THEN CHOOSE i \in 1..Len(a) :
            a[i] = 1 /\ \A j \in (i + 1)..Len(a) : a[j] = 0
    ELSE 0

\* the bits of a up to its highest 1
BTrim(a) == SubSeq(a, 1, Top(a))

RECURSIVE BFromInt(_)
BFromInt(n) == IF n = 0 THEN <<>> ELSE <<n % 2>> \o BFromInt(n \div 2)

BOne == <<1>>

\* bit i of a, 0 beyond its length
BBit(a, i) == IF i <= Len(a) THEN a[i] ELSE 0

\* a + b: the carry into bit i comes from a lower place where both have a
\* 1 and passes the places in between where one of them has a 1
BCarry(a, b, i) ==
    IF \E j \in 1..(i - 1) :
          /\ BBit(a, j) = 1 /\ BBit(b, j) = 1
          /\ \A k \in (j + 1)..(i - 1) : BBit(a, k) + BBit(b, k) >= 1
    THEN 1
    ELSE 0

BAdd(a, b) ==
    BTrim([i \in 1..(Max(Len(a), Len(b)) + 1) |->
              (BBit(a, i) + BBit(b, i) + BCarry(a, b, i)) % 2])

\* a < b
BLess(a, b) ==
    IF Len(a) # Len(b) THEN Len(a) < Len(b)
    ELSE \E i \in 1..Len(a) :
            /\ a[i] < b[i]
            /\ \A j \in (i + 1)..Len(a) : a[j] = b[j]

\* a - b for a >= b: the borrow from bit i comes from a lower place where
\* a has 0 and b has 1 and passes the places in between where a has no
\* more than b
BBorrow(a, b, i) ==
    IF \E j \in 1..(i - 1) :
          /\ BBit(a, j) < BBit(b, j)
          /\ \A k \in (j + 1)..(i - 1) : BBit(a, k) <= BBit(b, k)
    THEN 1
    ELSE 0

BSub(a, b) ==
    BTrim([i \in 1..Len(a) |->
              (2 + BBit(a, i) - BBit(b, i) - BBorrow(a, b, i)) % 2])

\* a * 2^k
BShl(a, k) == IF a = <<>> THEN <<>> ELSE [i \in 1..k |-> 0] \o a

BMul10(a) == BAdd(BShl(a, 3), BShl(a, 1))

RECURSIVE BPow10(_)
BPow10(k) == IF k = 0 THEN BOne ELSE BMul10(BPow10(k - 1))

\* the number a string of decimal digits denotes
RECURSIVE BFromDigits(_)
BFromDigits(s) ==
    IF s = <<>> THEN <<>>
    ELSE BAdd(BMul10(BFromDigits(SubSeq(s, 1, Len(s) - 1))),
              BFromInt(DigitVal(s[Len(s)])))

\* one step of the long division by d: h holds the quotient and the
\* remainder of the bits above, bit is the next bit of the dividend; the
\* quotient keeps its zeros at the high end
DivStep(h, bit, d) ==
    IF BLess(BTrim(<<bit>> \o h.r), d)
    THEN [q |-> <<0>> \o h.q, r |-> BTrim(<<bit>> \o h.r)]
    ELSE [q |-> <<1>> \o h.q, r |-> BSub(BTrim(<<bit>> \o h.r), d)]

\* n more steps of the long division of a by d from the high end of a,
\* half of them after the other half, none once the quotient has a bit
\* for every bit of a
RECURSIVE DivSteps(_, _, _, _)
DivSteps(h, a, d, n) ==
    IF n = 0 \/ Len(h.q) = Len(a) THEN h
    ELSE IF n = 1 THEN DivStep(h, a[Len(a) - Len(h.q)], d)
    ELSE DivSteps(DivSteps(h, a, d, n \div 2), a, d, n - n \div 2)

\* h without the zeros at the high end of its quotient
Trimmed(h) == [q |-> BTrim(h.q), r |-> h.r]

\* quotient and remainder of a by d, d > 0
BDivMod(a, d) == Trimmed(DivSteps([q |-> <<>>, r |-> <<>>], a, d, Len(a)))

(***************************************************************************)
(* Python floats: IEEE 754 binary64 with rounding to nearest, ties to      *)
(* even.  A float is 0.0, [m |-> <<>>, e |-> 0], or m * 2^e with m odd.    *)
(* The values of the model are positive and far from the ends of the       *)
(* exponent range, so infinities, subnormal numbers and signs do not       *)
(* occur.                                                                  *)
(***************************************************************************)
\* the bits of the significand of a float
MantissaBits == 53

\* line 246: 0.0
FloatZero == [m |-> <<>>, e |-> 0]

\* the number of zero bits at the low end of a, a # 0
LowZeros(a) ==
    (CHOOSE i \in 1..Len(a) : a[i] = 1 /\ \A j \in 1..(i - 1) : a[j] = 0) - 1

\* m * 2^e in the form with m odd
FloatCanon(m, e) ==
    IF m = <<>> THEN FloatZero
    ELSE [m |-> SubSeq(m, LowZeros(m) + 1, Len(m)), e |-> e + LowZeros(m)]

\* a without its bits below the highest MantissaBits, rounded to nearest,
\* ties to even; Len(a) > MantissaBits
RoundBits(a) ==
    IF /\ a[Len(a) - MantissaBits] = 1
       /\ \/ a[Len(a) - MantissaBits + 1] = 1
          \/ \E i \in 1..(Len(a) - MantissaBits - 1) : a[i] = 1
    THEN BAdd(SubSeq(a, Len(a) - MantissaBits + 1, Len(a)), BOne)
    ELSE SubSeq(a, Len(a) - MantissaBits + 1, Len(a))

\* the float nearest to the integer a * 2^e, a > 0: a itself, or a
\* rounded to MantissaBits bits
RoundInteger(a, e) ==
    IF Len(a) <= MantissaBits THEN FloatCanon(a, e)
    ELSE FloatCanon(RoundBits(a), e + Len(a) - MantissaBits)

\* the quotient h.q with one more bit below it that tells whether the
\* remainder h.r is more than 0
WithSticky(h) == <<IF h.r = <<>> THEN 0 ELSE 1>> \o h.q

\* the float nearest to a * 2^k / d when the quotient of a by d has more
\* than MantissaBits bits
RoundDivision(a, d, k) == RoundInteger(WithSticky(BDivMod(a, d)), k - 1)

\* the float nearest to a / d: an integer is rounded as it is; a quotient
\* of more than MantissaBits + 1 bits is rounded as it is, with the
\* remainder as one more bit; otherwise a is first scaled by a power of 2
\* that leaves a quotient of one or two bits more than MantissaBits
RoundToFloat(a, d) ==
    IF a = <<>> THEN FloatZero
    ELSE IF d = BOne THEN RoundInteger(a, 0)
    ELSE IF Len(a) - Len(d) > MantissaBits + 1 THEN RoundDivision(a, d, 0)
    ELSE RoundDivision(BShl(a, MantissaBits + 1 - (Len(a) - Len(d))), d,
                       (Len(a) - Len(d)) - (MantissaBits + 1))

\* the float of the numeral of n / 10^e, as float("<n>e-<e>")
FloatOf(n, e) == RoundToFloat(BFromInt(n), BPow10(e))

\* a + b on floats (lines 256 and 268: total_value += parsed)
FloatAdd(a, b) ==
    IF a.m = <<>> THEN b
    ELSE IF b.m = <<>> THEN a
    ELSE IF a.e <= b.e
         THEN RoundInteger(BAdd(a.m, BShl(b.m, b.e - a.e)), a.e)
         ELSE RoundInteger(BAdd(BShl(a.m, a.e - b.e), b.m), b.e)

\* line 100: float("<ip>") or float("<ip>.<fp>")
float(ip, fp) == RoundToFloat(BFromDigits(ip \o fp), BPow10(Len(fp)))

(***************************************************************************)
(* parse_price_to_float (src/main.py:73-102)                               *)
(***************************************************************************)
\* lines 83-87: strip, remove the currency markers, strip.  The literals
\* are the ones of the source file, whose first and last are the three
\* characters U+201A U+00C7 U+00B1 and U+201A U+00C7 U+00A5.
StripCurrency(price_text) ==
    LET s0 == strip(price_text)
        s1 == replace(s0, <<"U+201A", "U+00C7", "U+00B1">>, <<>>)
        s2 == replace(s1, <<"P", "H", "P">>, <<>>)
        s3 == replace(s2, <<"$">>, <<>>)
        s4 == replace(s3, <<"U", "S", "$">>, <<>>)
        s5 == replace(s4, <<"M", "e", "x", "$">>, <<>>)
        s6 == replace(s5, <<"U", "S", "D">>, <<>>)
        s7 == replace(s6, <<"U+201A", "U+00C7", "U+00A5">>, <<>>)
    IN  strip(s7)

\* a faulty variant of Separators: the decimal-comma rule comes first and
\* does not look for a '.'
Separators_CommaFirst(s) ==
    IF count(s, ",") > 0 THEN replace(s, <<",">>, <<".">>)
    ELSE s

\* lines 90-94: which of ',' and '.' is the decimal point
BothSeparators(s) == count(s, ",") > 0 /\ count(s, ".") > 0

OnlyComma(s) == count(s, ",") > 0 /\ count(s, ".") = 0

Separators(s) ==
    IF BothSeparators(s) THEN replace(s, <<",">>, <<>>)
    ELSE IF OnlyComma(s) THEN replace(s, <<",">>, <<".">>)
    ELSE s

\* line 96: re.search(r"(\d+(?:\.\d+)?)", s): None, or Some of the integer
\* and fraction digits of the first numeral
RECURSIVE SearchNumeral(_)
SearchNumeral(s) ==
    IF s = <<>> THEN None
    ELSE IF s[1] \notin Digits THEN SearchNumeral(Tail(s))
    ELSE LET k    == SpanLen(s, Digits)
             rest == SubSeq(s, k + 1, Len(s))
             f    == IF rest # <<>> /\ rest[1] = "."
                     THEN SpanLen(Tail(rest), Digits)
                     ELSE 0
         IN  Some(<<SubSeq(s, 1, k), SubSeq(rest, 2, f + 1)>>)

\* price_text is None or Some(string); the result is None or Some(float)
parse_price_to_float(price_text) ==
    IF price_text = None \/ price_text[1] = <<>> THEN None
    ELSE LET m == SearchNumeral(Separators(StripCurrency(price_text[1])))
         IN  IF m = None THEN None
             ELSE Some(float(m[1][1], m[1][2]))

(***************************************************************************)
(* clean_item_name (src/main.py:65-71)                                     *)
(***************************************************************************)
\* unicodedata.normalize("NFKC", c) on the characters of the model's
\* alphabet: NO-BREAK SPACE becomes a space, FULLWIDTH LATIN CAPITAL A
\* becomes A, HORIZONTAL ELLIPSIS becomes three periods, SUPERSCRIPT TWO
\* becomes 2; every other character of the alphabet is its own NFKC form.
NFKCChar(c) ==
    CASE c = "U+00A0" -> <<" ">>
      [] c = "U+FF21" -> <<"A">>
      [] c = "U+2026" -> <<".", ".", ".">>
      [] c = "U+00B2" -> <<"2">>
      [] OTHER -> <<c>>

RECURSIVE NFKC(_)
NFKC(s) == IF s = <<>> THEN <<>> ELSE NFKCChar(s[1]) \o NFKC(Tail(s))

\* line 69: the four replacements, with the literals of the source file
\* (each is the three characters U+201A U+00C4 and one of U+00F4, U+00F2,
\* U+00FA, U+00F9)
ReplaceQuotes(nm) ==
    LET n1 == replace(nm, <<"U+201A", "U+00C4", "U+00F4">>, <<"'">>)
        n2 == replace(n1, <<"U+201A", "U+00C4", "U+00F2">>, <<"'">>)
        n3 == replace(n2, <<"U+201A", "U+00C4", "U+00FA">>, <<"\"">>)
    IN  replace(n3, <<"U+201A", "U+00C4", "U+00F9">>, <<"\"">>)

clean_item_name(nm) ==
    IF nm = <<>> THEN nm ELSE strip(NFKC(ReplaceQuotes(nm)))

(***************************************************************************)
(* ocr_extract_names_from_image (src/main.py:158-180)                      *)
(***************************************************************************)
\* line 177: re.fullmatch(r"[\d,\.]+", t)
NumericToken(t) ==
    t # <<>> /\ \A i \in 1..Len(t) : t[i] \in Digits \cup {",", "."}

\* lines 170-179: whether the text block t is kept
KeepToken(t) ==
    LET u == strip(t)
    IN  u # <<>> /\ Len(u) >= 2 /\ ~NumericToken(u)

RECURSIVE ocr_extract_names_from_image(_)
ocr_extract_names_from_image(res) ==
    IF res = <<>> THEN <<>>
    ELSE (IF KeepToken(res[1]) THEN <<strip(res[1])>> ELSE <<>>)
         \o ocr_extract_names_from_image(Tail(res))

\* line 238: [clean_item_name(n) for n in raw_names if n.strip()]
RECURSIVE CleanNames(_)
CleanNames(raw) ==
    IF raw = <<>> THEN <<>>
    ELSE (IF strip(raw[1]) # <<>> THEN <<clean_item_name(raw[1])>> ELSE <<>>)
         \o CleanNames(Tail(raw))

(***************************************************************************)
(* The fallback name (src/main.py:263)                                     *)
(***************************************************************************)
\* re.sub(r"^[xX]\s*\d+\s*", "", nm).strip()
alt_name(nm) ==
    IF nm # <<>> /\ nm[1] \in {"x", "X"}
    THEN LET a  == Tail(nm)
             w1 == SpanLen(a, Whitespace)
             b  == SubSeq(a, w1 + 1, Len(a))
             d  == SpanLen(b, Digits)
             c  == SubSeq(b, d + 1, Len(b))
             w2 == SpanLen(c, Whitespace)
         IN  IF d >= 1 THEN strip(SubSeq(c, w2 + 1, Len(c))) ELSE strip(nm)
    ELSE strip(nm)

(***************************************************************************)
(* Inputs of the model                                                     *)
(***************************************************************************)
DotaPlus == <<"D", "o", "t", "a", " ", "P", "l", "u", "s">>

x5Arcana == <<"x", "5", " ", "A", "r", "c", "a", "n", "a">>

Arcana == <<"A", "r", "c", "a", "n", "a">>

X2Gem == <<"X", "2", " ", "G", "e", "m">>

\* the text blocks reader.readtext may return: three item names and a
\* stack count, which the filter drops
RawTokens == {DotaPlus, x5Arcana, X2Gem, <<"5">>}

\* U+20B1 is the peso sign
Price100 == <<"U+20B1", "1", "0", "0", ".", "0", "0">>

Price550 == <<"U+20B1", "5", ".", "5", "0">>

PriceNA == <<"N", "/", "A">>

\* the strings a price field of a response may hold
PriceStrings == {Price100, Price550, PriceNA}

\* a price field: absent, empty, or one of the strings
PriceFields == {None, Some(<<>>)} \cup {Some(p) : p \in PriceStrings}

\* what requests.get may do: raise (timeout, connection error), or return
\* a response with a status code and a body that is JSON (Some(data)) or
\* not (None: r.json() raises)
Responses ==
    {[kind |-> "exception"]}
    \cup {[kind |-> "http", status |-> 500, json |-> None],
          [kind |-> "http", status |-> 200, json |-> None]}
    \cup {[kind |-> "http", status |-> 200, json |-> Some(d)] :
            d \in [success : BOOLEAN,
                   lowest_price : PriceFields,
                   median_price : PriceFields]}

\* the sequences over S of length at most n
SeqsUpTo(S, n) == UNION {[1..k -> S] : k \in 0..n}

\* the lists of text blocks reader.readtext may return
InputLists == SeqsUpTo(RawTokens, MaxItems)

\* the long lists of text blocks: the same item name, up to often enough
\* to pass the first cooldown and the second one
LongLists == {[i \in 1..k |-> DotaPlus] : k \in 1..MaxLongItems}

\* requests.get raises
RaisedResponse == [kind |-> "exception"]

\* the price source answers with a lowest price
PricedResponse ==
    [kind |-> "http", status |-> 200,
     json |-> Some([success |-> TRUE, lowest_price |-> Some(Price100),
                    median_price |-> None])]

\* item number i is the one before a cooldown, the one a cooldown follows,
\* or the one after a cooldown
NearCooldown(i) ==
    i % COOLDOWN_EVERY \in {COOLDOWN_EVERY - 1, 0, 1}

\* what requests.get may do in a long run: near a cooldown a request is
\* answered with a price or raises, elsewhere it is answered with a price
LongResponses(i) ==
    IF NearCooldown(i) THEN {RaisedResponse, PricedResponse}
    ELSE {PricedResponse}

\* price strings in the formats the parser is written for; U+20B4 is the
\* hryvnia sign
Price2450 == <<"2", ",", "4", "5", "0", ".", "0", "0">>

Price5649 == <<"5", "6", ",", "4", "9", "U+20B4">>

Price1234c56 == <<"1", ".", "2", "3", "4", ",", "5", "6">>

PricePeso1234 == <<"U+20B1", "1", ",", "2", "3", "4", ".", "5", "0">>

Price12c5 == <<"1", "2", ",", "5">>

PriceMillion == <<"1", ",", "2", "3", "4", ",", "5", "6", "7">>

PriceUsd3438 == <<"$", "3", "4", ".", "3", "8", " ", "U", "S", "D">>

PricePhp999 == <<"P", "H", "P", " ", "9", "9", "9">>

ParserPrices ==
    {Price2450, Price5649, Price1234c56, PricePeso1234, Price12c5,
     PriceMillion, PriceUsd3438, PricePhp999, PriceNA}

\* what requests.get may do in the runs that exercise the parser: raise,
\* or answer with one of the price strings as the lowest price
ParserResponses ==
    {RaisedResponse}
    \cup {[kind |-> "http", status |-> 200,
           json |-> Some([success |-> TRUE, lowest_price |-> Some(p),
                          median_price |-> None])] : p \in ParserPrices}

\* prices whose floats are not the decimals they are written as
Price010 == <<"U+20B1", "0", ".", "1", "0">>

Price020 == <<"U+20B1", "0", ".", "2", "0">>

Price030 == <<"U+20B1", "0", ".", "3", "0">>

SumPrices == {Price010, Price020, Price030}

\* what requests.get may do in the runs that add up small prices: raise,
\* or answer with one of the small prices as the lowest price
SumResponses ==
    {RaisedResponse}
    \cup {[kind |-> "http", status |-> 200,
           json |-> Some([success |-> TRUE, lowest_price |-> Some(p),
                          median_price |-> None])] : p \in SumPrices}

\* every response of the model
AllResponses == Responses \cup ParserResponses \cup SumResponses

\* responses whose two price fields never hold the same string: the
\* lowest price is absent, empty or one string, the median price absent,
\* empty or another string
FieldResponses ==
    {RaisedResponse}
    \cup {[kind |-> "http", status |-> 200, json |-> Some(d)] :
            d \in [success : BOOLEAN,
                   lowest_price : {None, Some(<<>>), Some(Price100)},
                   median_price : {None, Some(<<>>), Some(Price550)}]}

\* text blocks the filter and the normalizer have to deal with.  U+2018,
\* U+2019, U+201C and U+201D are the typographic quotation marks; U+00B2
\* is SUPERSCRIPT TWO, which is not a decimal digit for \d.
Twelve345 == <<"1", "2", ",", "3", "4", "5">>

SuperTwos == <<"U+00B2", "U+00B2">>

x5 == <<"x", "5">>

DragonsBladeCurly ==
    <<"D", "r", "a", "g", "o", "n", "U+2019", "s", " ", "B", "l", "a", "d",
      "e">>

DragonsBlade ==
    <<"D", "r", "a", "g", "o", "n", "'", "s", " ", "B", "l", "a", "d", "e">>

\* the same name with the three characters line 69 replaces by "'"
DragonsBladeLiteral ==
    <<"D", "r", "a", "g", "o", "n", "U+201A", "U+00C4", "U+00F4", "s", " ",
      "B", "l", "a", "d", "e">>

GemCurly == <<"U+201C", "G", "e", "m", "U+201D">>

DotaPlusPadded == <<" ", "D", "o", "t", "a", " ", "P", "l", "u", "s", "\t">>

NameTokens ==
    {<<"5">>, <<"a">>, Twelve345, SuperTwos, x5, DragonsBladeCurly,
     DragonsBladeLiteral, GemCurly, DotaPlusPadded}

NameLists == SeqsUpTo(NameTokens, MaxNameItems)

\* a text block with a line break inside
DotaPlusTwoLines == <<"D", "o", "t", "a", "\n", "P", "l", "u", "s">>

\* the text blocks of the runs that look at the lines of the result file
ReportTokens == {DotaPlus, DotaPlusTwoLines}

ReportLists == SeqsUpTo(ReportTokens, MaxItems)

\* the lists of text blocks of the runs that add up small prices
SumLists == SeqsUpTo({DotaPlus}, MaxSumItems)

\* every list of text blocks of the model
AllInputLists ==
    InputLists \cup LongLists \cup NameLists \cup ReportLists \cup SumLists

\* A table is a set of pairs <<argument, value>>.  The string functions
\* are tabulated over the inputs of the model, so that an action looks a
\* value up instead of recomputing it character by character.
Lookup(table, x) == (CHOOSE p \in table : p[1] = x)[2]

\* line 232: raw_names, for every list of text blocks
OcrTable == {<<r, ocr_extract_names_from_image(r)>> : r \in AllInputLists}

\* line 238: cleaned_names, for every raw_names
CleanTable == {<<p[2], CleanNames(p[2])>> : p \in OcrTable}

\* the names that occur in some cleaned_names
CleanedNames == UNION {{p[2][i] : i \in 1..Len(p[2])} : p \in CleanTable}

\* line 263: alt_name, for every cleaned name
AltNameTable == {<<n, alt_name(n)>> : n \in CleanedNames}

(***************************************************************************)
(* steam_price_for_item (src/main.py:104-142): one attempt                 *)
(***************************************************************************)
\* Python truthiness of None-or-string
Truthy(x) == x # None /\ x[1] # <<>>

\* a faulty variant of PriceField: the median price is preferred
PriceField_MedianFirst(data) ==
    IF Truthy(data.median_price) THEN data.median_price
    ELSE data.lowest_price

\* line 127: data.get("lowest_price") or data.get("median_price")
PriceField(data) ==
    IF Truthy(data.lowest_price) THEN data.lowest_price
    ELSE data.median_price

\* lines 123-137: where an attempt ends.  "transport": requests.get or
\* r.json() raised, or the status is not 200; "unsuccessful": the success
\* field is false; "noprice": success without a price string; "price".
Outcome(resp) ==
    IF resp.kind = "exception" THEN "transport"
    ELSE IF resp.status # 200 THEN "transport"
    ELSE IF resp.json = None THEN "transport"
    ELSE IF ~resp.json[1].success THEN "unsuccessful"
    ELSE IF Truthy(PriceField(resp.json[1])) THEN "price"
    ELSE "noprice"

\* line 127: the price string the response carries, None when the attempt
\* does not reach line 127 or finds no price string there
PriceSeen(resp) ==
    IF Outcome(resp) = "price" THEN PriceField(resp.json[1]) ELSE None

\* a faulty variant of Returned: a price string that does not parse is
\* dropped, as if the item had no price
Returned_DropsUnparsable(resp) ==
    IF /\ Outcome(resp) = "price"
       /\ parse_price_to_float(PriceField(resp.json[1])) # None
    THEN <<PriceField(resp.json[1]),
           parse_price_to_float(PriceField(resp.json[1]))>>
    ELSE <<None, None>>

\* lines 128-132: the pair returned by an attempt that returns
Returned(resp) ==
    IF Outcome(resp) = "price"
    THEN <<PriceField(resp.json[1]),
           parse_price_to_float(PriceField(resp.json[1]))>>
    ELSE <<None, None>>

\* a faulty variant of AfterAttempt: the exception of a failed request is
\* not caught and ends the handler
AfterAttempt_Uncaught(outcome) ==
    IF outcome \in {"price", "noprice"} THEN "returned"
    ELSE IF outcome = "transport" THEN "crashed"
    ELSE "backoff"

\* a faulty variant of AfterAttempt: success without a price string falls
\* through to the back-off and is retried
AfterAttempt_NoPriceRetries(outcome) ==
    IF outcome = "price" THEN "returned" ELSE "backoff"

\* lines 124-140: an attempt returns from the function (lines 130, 132) or
\* falls through to the back-off of line 140
AfterAttempt(outcome) ==
    IF outcome \in {"price", "noprice"} THEN "returned" ELSE "backoff"

\* a faulty variant of MoreAttempts: one attempt too many
MoreAttempts_OffByOne(attempt, retries) == attempt <= retries

\* lines 123-137 for every response: the outcome of the attempt, the pair
\* it returns when it returns, and the price string it saw
AttemptTable ==
    {<<resp, [outcome |-> Outcome(resp),
              ret     |-> Returned(resp),
              seen    |-> PriceSeen(resp)]>> : resp \in AllResponses}

\* line 121: range(1, retries + 1) has another attempt
MoreAttempts(attempt, retries) == attempt < retries

\* a faulty variant of BackoffDelay: the shorter delay between attempts
BackoffDelay_Short == SUCCESS_DELAY

\* line 140: time.sleep(ERROR_DELAY)
BackoffDelay == ERROR_DELAY

(***************************************************************************)
(* handle_image (src/main.py:187-314): the parts of an iteration           *)
(***************************************************************************)
\* line 272: the marker of a failed row, with the characters of the source
NOT_FOUND ==
    <<"U+201A", "U+00F9", "U+00E5", " ", "N", "o", "t", " ", "f", "o", "u",
      "n", "d", " ", "/", " ", "E", "r", "r", "o", "r">>

\* a faulty variant of FallbackRetries: the default retries=MAX_RETRIES
FallbackRetries_Default == MAX_RETRIES

\* line 264: retries=1
FallbackRetries == 1

\* a faulty variant of Accumulate: an unparsable price resets the total
Accumulate_Reset(total, parsed) ==
    IF parsed # None THEN FloatAdd(total, parsed[1]) ELSE FloatZero

\* lines 255-256 and 267-268: if parsed is not None: total_value += parsed
Accumulate(total, parsed) ==
    IF parsed # None THEN FloatAdd(total, parsed[1]) ELSE total

\* the floats parse_price_to_float returns for the price strings of P
ParsedValues(P) ==
    {parse_price_to_float(Some(p))[1] :
        p \in {q \in P : parse_price_to_float(Some(q)) # None}}

\* the totals of T, and those one more parsed value of V makes of them
Grow(T, V) == T \cup {FloatAdd(t, v) : t \in T, v \in V}

\* Grow k times, half of the times after the other half
RECURSIVE GrowTimes(_, _, _)
GrowTimes(T, V, k) ==
    IF k = 0 \/ T = {} THEN T
    ELSE IF k = 1 THEN Grow(T, V)
    ELSE GrowTimes(GrowTimes(T, V, k \div 2), V, k - k \div 2)

\* the values total_value takes in a loop over at most k items whose
\* parsed values are in V
Totals(V, k) == GrowTimes({FloatZero}, V, k)

\* lines 255-256 and 267-268 for the totals of T and no parsed value or
\* one of V
AccumulateOver(T, V) ==
    {<<<<t, parsed>>, Accumulate(t, parsed)>> :
        t \in T, parsed \in {None} \cup {Some(v) : v \in V}}

\* the parsed values and the totals of the runs over short lists
ShortValues == ParsedValues(PriceStrings)

ShortTotals == Totals(ShortValues, Max(MaxItems, MaxNameItems))

\* those of the runs over long lists
LongValues == ParsedValues({Price100})

LongTotals == Totals(LongValues, MaxLongItems)

\* the parsed values of the runs over one item with many price formats
ParserValues == ParsedValues(ParserPrices)

\* the parsed values and the totals of the runs that add up small prices
SumValues == ParsedValues(SumPrices)

SumTotals == Totals(SumValues, MaxSumItems)

\* lines 255-256 and 267-268 for every total and parsed value of the runs
AccumulateTable ==
    AccumulateOver(ShortTotals, ShortValues)
    \cup AccumulateOver(LongTotals, LongValues)
    \cup AccumulateOver({FloatZero}, ParserValues)
    \cup AccumulateOver(SumTotals, SumValues)

\* a faulty variant of Incr: the count is not updated
Incr_Forgotten(c) == c

\* lines 257, 269 and 273: count += 1
Incr(c) == c + 1

\* lines 259 and 270: time.sleep(SUCCESS_DELAY)
SuccessDelay == SUCCESS_DELAY

\* a faulty variant of FailureDelay: the shorter delay after a failed item
FailureDelay_Short == SUCCESS_DELAY

\* line 274: time.sleep(ERROR_DELAY)
FailureDelay == ERROR_DELAY

\* a faulty variant of CooldownDue: the items are counted from 0
CooldownDue_ZeroBased(i) == (i - 1) % COOLDOWN_EVERY = 0

\* line 277: idx % COOLDOWN_EVERY == 0
CooldownDue(i) == i % COOLDOWN_EVERY = 0

\* lines 277-278: the cooldown after item number i
CooldownAfter(i) == IF CooldownDue(i) THEN COOLDOWN_TIME ELSE 0

(***************************************************************************)
(* State                                                                   *)
(***************************************************************************)
VARIABLES
    results,        \* reader.readtext(...): the text blocks of the image
    pc,             \* where handle_image is
    cleaned_names,  \* line 238
    idx,            \* line 250: the 1-based number of the current item
    stage,          \* "primary" (line 252) or "fallback" (line 264)
    call,           \* steam_price_for_item's item_name, retries, attempt
    ret,            \* what steam_price_for_item returned: price_str, parsed
    reqs,           \* the requests sent for the current item, in order
    rows,           \* line 247
    success_count,  \* line 244
    fail_count,     \* line 245
    total_value,    \* line 246
    since_req,      \* time slept since the latest request was sent
    since_row,      \* time slept since the latest row was appended
    report,         \* the lines of the result file, None until written
    summary,        \* the lines of the summary message, None until sent
    sleeps,         \* the time.sleep calls of the current iteration, in order
    cooldowns       \* the item numbers after which line 278 slept, in order

vars ==
    <<results, pc, cleaned_names, idx, stage, call, ret, reqs, rows,
      success_count, fail_count, total_value, since_req, since_row, report,
      summary, sleeps, cooldowns>>

NoCall == [item_name |-> <<>>, retries |-> 0, attempt |-> 0]

Init ==
    /\ results \in SeqsUpTo(RawTokens, MaxItems)
    /\ pc = "ocr"
    /\ cleaned_names = <<>>
    /\ idx = 0
    /\ stage = "none"
    /\ call = NoCall
    /\ ret = <<None, None>>
    /\ reqs = <<>>
    /\ rows = <<>>
    /\ success_count = 0
    /\ fail_count = 0
    /\ total_value = FloatZero
    /\ since_req = 0
    /\ since_row = 0
    /\ report = None
    /\ summary = None
    /\ sleeps = <<>>
    /\ cooldowns = <<>>

\* the name of the current item (line 250)
name == cleaned_names[idx]

\* a faulty variant of RowFor: the row carries the name that was queried
RowFor_CallName(price) == <<call.item_name, price>>

\* lines 254, 266 and 272: the row of the current item
RowFor(price) == <<name, price>>

\* the record of a time.sleep(d) call: the line of the call, and how many
\* requests of the current item and how many rows precede it
Slept(d, line, nrows) ==
    [d |-> d, line |-> line, reqs |-> Len(reqs), rows |-> nrows]

\* a faulty variant of Sleep: the call returns at once
Sleep_ReturnsAtOnce(d, line) ==
    /\ since_req' = since_req
    /\ since_row' = since_row
    /\ sleeps' = Append(sleeps, Slept(0, line, Len(rows)))

\* time.sleep(d) on the given line
Sleep(d, line) ==
    /\ since_req' = since_req + d
    /\ since_row' = since_row + d
    /\ sleeps' = Append(sleeps, Slept(d, line, Len(rows)))

\* rows.append(row) and then time.sleep(d) on the given line
AppendRowThenSleep(row, d, line) ==
    /\ rows' = Append(rows, row)
    /\ since_req' = since_req + d
    /\ since_row' = d
    /\ sleeps' = Append(sleeps, Slept(d, line, Len(rows) + 1))

(***************************************************************************)
(* Actions                                                                 *)
(***************************************************************************)
\* line 232: raw_names
raw_names == Lookup(OcrTable, results)

\* lines 232-247: OCR extraction, the early return when no text is found
\* (cleaned_names and the counters are then never assigned and keep their
\* initial values), the cleaning of the names and the initial counters
Extract ==
    /\ pc = "ocr"
    /\ pc' = IF raw_names = <<>> THEN "no_items" ELSE "loop"
    /\ cleaned_names' = Lookup(CleanTable, raw_names)
    /\ rows' = <<>>
    /\ success_count' = 0
    /\ fail_count' = 0
    /\ total_value' = FloatZero
    /\ UNCHANGED <<results, idx, stage, call, ret, reqs, since_req,
                   since_row, report, summary, sleeps, cooldowns>>

\* lines 250-252: the next item; steam_price_for_item(name, MAX_RETRIES)
NextItem ==
    /\ pc = "loop"
    /\ idx < Len(cleaned_names)
    /\ idx' = idx + 1
    /\ stage' = "primary"
    /\ call' = [item_name |-> cleaned_names[idx + 1],
                retries |-> MAX_RETRIES, attempt |-> 1]
    /\ ret' = <<None, None>>
    /\ reqs' = <<>>
    /\ sleeps' = <<>>
    /\ pc' = "request"
    /\ UNCHANGED <<results, cleaned_names, rows, success_count, fail_count,
                   total_value, since_req, since_row, report, summary,
                   cooldowns>>

\* lines 123-137: one request and what the response makes of it
Request(resp) ==
    /\ pc = "request"
    /\ reqs' = Append(reqs, [stage     |-> stage,
                             name      |-> call.item_name,
                             attempt   |-> call.attempt,
                             gap       |-> since_req,
                             after_row |-> since_row,
                             outcome   |-> Lookup(AttemptTable, resp).outcome,
                             price     |-> Lookup(AttemptTable, resp).seen])
    /\ since_req' = 0
    /\ pc' = AfterAttempt(Lookup(AttemptTable, resp).outcome)
    /\ ret' = IF AfterAttempt(Lookup(AttemptTable, resp).outcome) = "returned"
              THEN Lookup(AttemptTable, resp).ret
              ELSE ret
    /\ UNCHANGED <<results, cleaned_names, idx, stage, call, rows,
                   success_count, fail_count, total_value, since_row,
                   report, summary, sleeps, cooldowns>>

\* lines 140, 121 and 142: the back-off, then the next attempt or the
\* return of (None, None) when the attempts are used up
Backoff ==
    /\ pc = "backoff"
    /\ Sleep(BackoffDelay, 140)
    /\ IF MoreAttempts(call.attempt, call.retries)
       THEN /\ call' = [call EXCEPT !.attempt = @ + 1]
            /\ pc' = "request"
            /\ ret' = ret
       ELSE /\ call' = call
            /\ pc' = "returned"
            /\ ret' = <<None, None>>
    /\ UNCHANGED <<results, cleaned_names, idx, stage, reqs, rows,
                   success_count, fail_count, total_value, report, summary,
                   cooldowns>>

\* lines 253-259: the primary call returned a price string
RecordPrimary ==
    /\ pc = "returned"
    /\ stage = "primary"
    /\ Truthy(ret[1])
    /\ AppendRowThenSleep(RowFor(ret[1][1]), SuccessDelay, 259)
    /\ total_value' = Lookup(AccumulateTable, <<total_value, ret[2]>>)
    /\ success_count' = Incr(success_count)
    /\ pc' = "cooldown"
    /\ UNCHANGED <<results, cleaned_names, idx, stage, call, ret, reqs,
                   fail_count, report, summary, cooldowns>>

\* lines 260-264: no price string; steam_price_for_item(alt_name, 1)
Fallback ==
    /\ pc = "returned"
    /\ stage = "primary"
    /\ ~Truthy(ret[1])
    /\ stage' = "fallback"
    /\ call' = [item_name |-> Lookup(AltNameTable, name),
                retries |-> FallbackRetries, attempt |-> 1]
    /\ pc' = "request"
    /\ UNCHANGED <<results, cleaned_names, idx, ret, reqs, rows,
                   success_count, fail_count, total_value, since_req,
                   since_row, report, summary, sleeps, cooldowns>>

\* lines 265-270: the fallback call returned a price string
RecordFallback ==
    /\ pc = "returned"
    /\ stage = "fallback"
    /\ Truthy(ret[1])
    /\ AppendRowThenSleep(RowFor(ret[1][1]), SuccessDelay, 270)
    /\ total_value' = Lookup(AccumulateTable, <<total_value, ret[2]>>)
    /\ success_count' = Incr(success_count)
    /\ pc' = "cooldown"
    /\ UNCHANGED <<results, cleaned_names, idx, stage, call, ret, reqs,
                   fail_count, report, summary, cooldowns>>

\* lines 271-274: neither call returned a price string
RecordFailure ==
    /\ pc = "returned"
    /\ stage = "fallback"
    /\ ~Truthy(ret[1])
    /\ AppendRowThenSleep(RowFor(NOT_FOUND), FailureDelay, 274)
    /\ fail_count' = Incr(fail_count)
    /\ pc' = "cooldown"
    /\ UNCHANGED <<results, cleaned_names, idx, stage, call, ret, reqs,
                   success_count, total_value, report, summary, cooldowns>>

\* lines 277-278: the longer pause after every COOLDOWN_EVERY-th item
Cooldown ==
    /\ pc = "cooldown"
    /\ IF CooldownDue(idx)
       THEN /\ Sleep(CooldownAfter(idx), 278)
            /\ cooldowns' = Append(cooldowns, idx)
       ELSE UNCHANGED <<since_req, since_row, sleeps, cooldowns>>
    /\ pc' = "loop"
    /\ UNCHANGED <<results, cleaned_names, idx, stage, call, ret, reqs,
                   rows, success_count, fail_count, total_value, report,
                   summary>>

\* a faulty variant of ReportLines: the blank line is not written
ReportLines_NoBlank ==
    <<[kind |-> "header"]>>
    \o [i \in 1..Len(rows) |->
            [kind |-> "row", name |-> rows[i][1], price |-> rows[i][2]]]
    \o <<[kind |-> "generated"],
         [kind |-> "total_items", value |-> Len(cleaned_names)],
         [kind |-> "success", value |-> success_count],
         [kind |-> "failed", value |-> fail_count],
         [kind |-> "total_value", value |-> total_value]>>

\* lines 283-291: the number of "\n" a call of rf.write puts in the file;
\* every call writes one at the end, and a row more when its name or its
\* price string holds some
LineBreaks(w) ==
    IF w.kind = "row" THEN count(w.name, "\n") + count(w.price, "\n") + 1
    ELSE 1

\* the number of lines of a file written by the calls ws
RECURSIVE FileLines(_)
FileLines(ws) ==
    IF ws = <<>> THEN 0 ELSE LineBreaks(ws[1]) + FileLines(Tail(ws))

\* lines 283-291: the calls of rf.write, one record each
ReportLines ==
    <<[kind |-> "header"]>>
    \o [i \in 1..Len(rows) |->
            [kind |-> "row", name |-> rows[i][1], price |-> rows[i][2]]]
    \o <<[kind |-> "blank"],
         [kind |-> "generated"],
         [kind |-> "total_items", value |-> Len(cleaned_names)],
         [kind |-> "success", value |-> success_count],
         [kind |-> "failed", value |-> fail_count],
         [kind |-> "total_value", value |-> total_value]>>

\* lines 297-304: the lines of the summary message
SummaryLines ==
    <<[kind |-> "title"], [kind |-> "blank"]>>
    \o [i \in 1..Len(rows) |->
            [kind |-> "row", number |-> i, name |-> rows[i][1],
             price |-> rows[i][2]]]
    \o <<[kind |-> "blank"],
         [kind |-> "summary"],
         [kind |-> "success", value |-> success_count],
         [kind |-> "failed", value |-> fail_count],
         [kind |-> "total_value", value |-> total_value]>>

\* lines 280-291: the loop is over; the result file is written
WriteReport ==
    /\ pc = "loop"
    /\ idx = Len(cleaned_names)
    /\ report' = Some(ReportLines)
    /\ pc' = "written"
    /\ UNCHANGED <<results, cleaned_names, idx, stage, call, ret, reqs,
                   rows, success_count, fail_count, total_value, since_req,
                   since_row, summary, sleeps, cooldowns>>

\* lines 296-311: the summary message and the file are sent
SendSummary ==
    /\ pc = "written"
    /\ summary' = Some(SummaryLines)
    /\ pc' = "done"
    /\ UNCHANGED <<results, cleaned_names, idx, stage, call, ret, reqs,
                   rows, success_count, fail_count, total_value, since_req,
                   since_row, report, sleeps, cooldowns>>

Next ==
    \/ Extract
    \/ NextItem
    \/ \E resp \in Responses : Request(resp)
    \/ Backoff
    \/ RecordPrimary
    \/ Fallback
    \/ RecordFallback
    \/ RecordFailure
    \/ Cooldown
    \/ WriteReport
    \/ SendSummary

Spec == Init /\ [][Next]_vars

\* handle_image runs on one thread and every step of it returns: a step
\* that can be taken is taken
FairSpec == Spec /\ WF_vars(Next)

\* handle_image before line 232, whatever the image holds
Fresh ==
    /\ pc = "ocr"
    /\ cleaned_names = <<>>
    /\ idx = 0
    /\ stage = "none"
    /\ call = NoCall
    /\ ret = <<None, None>>
    /\ reqs = <<>>
    /\ rows = <<>>
    /\ success_count = 0
    /\ fail_count = 0
    /\ total_value = FloatZero
    /\ since_req = 0
    /\ since_row = 0
    /\ report = None
    /\ summary = None
    /\ sleeps = <<>>
    /\ cooldowns = <<>>

(***************************************************************************)
(* Runs against a price source whose two price fields differ               *)
(***************************************************************************)
FieldNext ==
    \/ Extract
    \/ NextItem
    \/ \E resp \in FieldResponses : Request(resp)
    \/ Backoff
    \/ RecordPrimary
    \/ Fallback
    \/ RecordFallback
    \/ RecordFailure
    \/ Cooldown
    \/ WriteReport
    \/ SendSummary

FieldSpec == Init /\ [][FieldNext]_vars

(***************************************************************************)
(* Runs over one item against a price source with many price formats       *)
(***************************************************************************)
ParserInit ==
    /\ results = <<DotaPlus>>
    /\ Fresh

ParserNext ==
    \/ Extract
    \/ NextItem
    \/ \E resp \in ParserResponses : Request(resp)
    \/ Backoff
    \/ RecordPrimary
    \/ Fallback
    \/ RecordFallback
    \/ RecordFailure
    \/ Cooldown
    \/ WriteReport
    \/ SendSummary

ParserSpec == ParserInit /\ [][ParserNext]_vars

(***************************************************************************)
(* Runs over unusual text blocks                                           *)
(***************************************************************************)
NameInit ==
    /\ results \in NameLists
    /\ Fresh

NameSpec == NameInit /\ [][Next]_vars

(***************************************************************************)
(* Runs over text blocks with and without a line break inside              *)
(***************************************************************************)
ReportInit ==
    /\ results \in ReportLists
    /\ Fresh

ReportSpec == ReportInit /\ [][Next]_vars

(***************************************************************************)
(* Runs that add up prices whose floats are inexact                        *)
(***************************************************************************)
SumInit ==
    /\ results \in SumLists
    /\ Fresh

SumNext ==
    \/ Extract
    \/ NextItem
    \/ \E resp \in SumResponses : Request(resp)
    \/ Backoff
    \/ RecordPrimary
    \/ Fallback
    \/ RecordFallback
    \/ RecordFailure
    \/ Cooldown
    \/ WriteReport
    \/ SendSummary

SumSpec == SumInit /\ [][SumNext]_vars

(***************************************************************************)
(* The long runs: lists long enough for the cooldown of lines 277-278      *)
(***************************************************************************)
CooldownInit ==
    /\ results \in LongLists
    /\ Fresh

CooldownNext ==
    \/ Extract
    \/ NextItem
    \/ \E resp \in LongResponses(idx) : Request(resp)
    \/ Backoff
    \/ RecordPrimary
    \/ Fallback
    \/ RecordFallback
    \/ RecordFailure
    \/ Cooldown
    \/ WriteReport
    \/ SendSummary

CooldownSpec == CooldownInit /\ [][CooldownNext]_vars

(***************************************************************************)
(* Properties                                                              *)
(***************************************************************************)
\* the iteration of item idx is complete: its row is appended
IterationDone == pc \in {"cooldown", "loop", "written", "done"}

\* the item loop has finished
LoopFinished ==
    \/ pc \in {"written", "done"}
    \/ pc = "loop" /\ idx = Len(cleaned_names)

Failed(row) == row[2] = NOT_FOUND

\* the requests of the current item that belong to a stage
StageReqs(st) == {i \in 1..Len(reqs) : reqs[i].stage = st}

\* C1: after each completed iteration the number of rows is the number of
\* items processed so far and is success_count + fail_count; after the
\* loop that number is the number of cleaned candidate names.
C1_RowsAndCounts ==
    /\ IterationDone =>
          /\ Len(rows) = idx
          /\ idx = success_count + fail_count
    /\ LoopFinished =>
          /\ Len(rows) = Len(cleaned_names)
          /\ Len(cleaned_names) = success_count + fail_count

C1_Witness ==
    /\ pc = "done"
    /\ Len(cleaned_names) = 2
    /\ success_count = 1
    /\ fail_count = 1

\* parse_price_to_float of every string a row may show
RowPriceTable ==
    {<<p, parse_price_to_float(Some(p))>> :
        p \in PriceStrings \cup ParserPrices \cup SumPrices \cup {NOT_FOUND}}

\* the parsed value of a row: that of its price string when the item has
\* one and it parses, None otherwise
RowValue(row) ==
    IF Failed(row) THEN None ELSE Lookup(RowPriceTable, row[2])

\* a + b for the totals a and the parsed values b of the runs over short
\* lists and of the runs that add up small prices
AddTable ==
    {<<<<t, v>>, FloatAdd(t, v)>> : t \in ShortTotals, v \in ShortValues}
    \cup {<<<<t, v>>, FloatAdd(t, v)>> : t \in SumTotals, v \in SumValues}

\* the sum of the parsed values of the rows rs, added one after the other
RECURSIVE SumRows(_)
SumRows(rs) ==
    IF rs = <<>> THEN FloatZero
    ELSE IF RowValue(rs[Len(rs)]) = None
         THEN SumRows(SubSeq(rs, 1, Len(rs) - 1))
         ELSE Lookup(AddTable, <<SumRows(SubSeq(rs, 1, Len(rs) - 1)),
                                 RowValue(rs[Len(rs)])[1]>>)

\* the rows in the order f
Reordered(f) == [i \in 1..Len(rows) |-> rows[f[i]]]

\* C2: after each completed iteration, and so at the end of the loop,
\* total_value is the sum of the parsed values of the rows whose item has
\* a price string that parses, whatever the order in which the rows are
\* summed; failed rows and unparsable price strings add nothing.
C2_TotalIsSum ==
    IterationDone =>
        \A f \in Permutations(1..Len(rows)) :
            SumRows(Reordered(f)) = total_value

\* C3: row i carries the name of candidate i, also when the price came from
\* the fallback name; at the end of the loop there is one row per
\* candidate; and every item, a duplicate too, is resolved by requests of
\* its own, the first of them a primary request with its name.
C3_RowsFollowCandidates ==
    /\ Len(rows) <= Len(cleaned_names)
    /\ \A i \in 1..Len(rows) : rows[i][1] = cleaned_names[i]
    /\ LoopFinished => Len(rows) = Len(cleaned_names)
    /\ pc \in {"backoff", "returned", "cooldown"} =>
          /\ reqs # <<>>
          /\ reqs[1].stage = "primary"
          /\ reqs[1].name = cleaned_names[idx]
          /\ reqs[1].attempt = 1

\* two rows of the same name, the first failed, the second priced by the
\* fallback query
C3_Witness ==
    /\ pc = "cooldown"
    /\ cleaned_names = <<x5Arcana, x5Arcana>>
    /\ rows = <<<<x5Arcana, NOT_FOUND>>, <<x5Arcana, Price100>>>>
    /\ reqs[Len(reqs)].stage = "fallback"

\* the report holds a row line for every candidate, in order
ReportComplete ==
    /\ report # None
    /\ Len(rows) = Len(cleaned_names)
    /\ \A i \in 1..Len(cleaned_names) :
          /\ report[1][i + 1].kind = "row"
          /\ report[1][i + 1].name = cleaned_names[i]
          /\ report[1][i + 1].price = rows[i][2]

\* C4 as stated: whenever the handler has returned, every candidate has
\* been processed and a complete report has been produced.
C4_AlwaysReport ==
    pc \in {"done", "no_items"} => idx = Len(cleaned_names) /\ ReportComplete

\* C4, amended: when the candidate list is not empty, whatever the price
\* source answers, the run ends with every candidate processed and a
\* complete report.
C4_NonEmptyRunCompletes ==
    (pc = "ocr" /\ raw_names # <<>>)
        ~> (pc = "done" /\ idx = Len(cleaned_names) /\ ReportComplete)

\* every item failed and the report is complete
C4_Witness ==
    /\ pc = "done"
    /\ Len(cleaned_names) = 2
    /\ fail_count = 2
    /\ ReportComplete

\* the primary requests of the current item are at most MAX_RETRIES, all
\* with the normalized name, and each but the first follows, after at least
\* ERROR_DELAY, a request that ended in one of the outcomes of `retried`
PrimaryRequests(retried) ==
    \A i \in StageReqs("primary") :
        /\ i <= MAX_RETRIES
        /\ reqs[i].attempt = i
        /\ reqs[i].name = cleaned_names[idx]
        /\ i > 1 =>
              /\ reqs[i - 1].stage = "primary"
              /\ reqs[i - 1].outcome \in retried
              /\ reqs[i].gap >= ERROR_DELAY

\* C5 as stated: a further primary request follows only a request that
\* failed at transport level.
C5_RetryOnlyAfterTransport == PrimaryRequests({"transport"})

\* C5, amended: a further primary request follows only a request that
\* failed at transport level or was answered with success = false.
C5_RetryOnlyAfterFailure == PrimaryRequests({"transport", "unsuccessful"})

C5_Witness ==
    /\ Len(reqs) >= 3
    /\ reqs[3].stage = "primary"
    /\ reqs[1].outcome = "unsuccessful"
    /\ reqs[2].outcome = "transport"
    /\ reqs[3].gap = ERROR_DELAY

\* the last request sent for the current item
LastReq == reqs[Len(reqs)]

\* C6: a primary request answered with success but no price string ends
\* the primary stage at once, whatever is left of the retry budget: it is
\* the last primary request of the item, the function returns without a
\* back-off, and no time passes before the fallback request.
C6_NoPriceEndsPrimary ==
    \A i \in StageReqs("primary") :
        reqs[i].outcome = "noprice" =>
            IF i = Len(reqs)
            THEN /\ since_req = 0
                 /\ \/ pc = "returned" /\ stage = "primary"
                    \/ pc = "request" /\ stage = "fallback"
            ELSE /\ i + 1 = Len(reqs)
                 /\ reqs[i + 1].stage = "fallback"
                 /\ reqs[i + 1].gap = 0

\* the first attempt, with two attempts left, found no price; the fallback
\* request followed
C6_Witness ==
    /\ Len(reqs) = 2
    /\ reqs[1].stage = "primary"
    /\ reqs[1].attempt = 1
    /\ reqs[1].outcome = "noprice"
    /\ reqs[2].stage = "fallback"

\* a primary request of the current item obtained a price string
PrimaryPriced == \E i \in StageReqs("primary") : reqs[i].outcome = "price"

\* C7: a fallback request is the one request after a primary stage that
\* ended without a price string, and carries the normalized name without
\* its leading quantity marker ("x5 Arcana" is retried as "Arcana");
\* once the item is resolved there is exactly one fallback request when
\* the primary stage gave no price string and none when it gave one; an
\* item causes at most MAX_RETRIES + 1 requests.
C7_OneFallbackRequest ==
    /\ \A i \in StageReqs("fallback") :
          /\ i = Len(reqs)
          /\ i > 1
          /\ reqs[i - 1].stage = "primary"
          /\ reqs[i - 1].outcome # "price"
          /\ reqs[i].name = alt_name(cleaned_names[idx])
          /\ cleaned_names[idx] = x5Arcana => reqs[i].name = Arcana
          /\ cleaned_names[idx] = X2Gem => reqs[i].name = <<"G", "e", "m">>
          /\ cleaned_names[idx] = DotaPlus => reqs[i].name = DotaPlus
    /\ pc = "cooldown" =>
          Cardinality(StageReqs("fallback")) = IF PrimaryPriced THEN 0 ELSE 1
    /\ Len(reqs) <= MAX_RETRIES + 1

\* three failed primary requests for "x5 Arcana", then "Arcana"
C7_Witness ==
    /\ pc = "cooldown"
    /\ cleaned_names[idx] = x5Arcana
    /\ Len(reqs) = MAX_RETRIES + 1
    /\ reqs[MAX_RETRIES].stage = "primary"
    /\ LastReq.stage = "fallback"
    /\ LastReq.name = Arcana

\* the rows that are failed rows
FailedRows == {i \in 1..Len(rows) : Failed(rows[i])}

\* C8: the row of a resolved item is a failed row exactly when none of its
\* requests, primary or fallback, gave a price string; otherwise it shows
\* the price string of the request that gave one, the fallback's when the
\* primary stage had none; fail_count counts the failed rows and
\* success_count the others.
C8_FailedIffNoPrice ==
    /\ pc = "cooldown" =>
          /\ Failed(rows[idx]) <=>
                \A i \in 1..Len(reqs) : reqs[i].outcome # "price"
          /\ LastReq.outcome = "price" =>
                rows[idx] = <<cleaned_names[idx], LastReq.price[1]>>
    /\ fail_count = Cardinality(FailedRows)
    /\ success_count = Len(rows) - Cardinality(FailedRows)

\* the retries were used up, the fallback gave a price: a success
C8_Witness ==
    /\ pc = "cooldown"
    /\ Len(reqs) = MAX_RETRIES + 1
    /\ reqs[MAX_RETRIES].outcome = "transport"
    /\ LastReq.stage = "fallback"
    /\ LastReq.outcome = "price"
    /\ rows[idx] = <<x5Arcana, Price100>>
    /\ success_count = 1
    /\ fail_count = 0

\* the float 100.0
Float100 == FloatOf(100, 0)

\* a price string was obtained for the current item and does not parse
UnparsablePriceReturned ==
    /\ pc = "returned"
    /\ LastReq.outcome = "price"
    /\ Lookup(RowPriceTable, LastReq.price[1]) = None

\* C9: when the price string obtained for an item does not parse, the
\* step that records the item appends the row with that price string,
\* counts a success, leaves fail_count and total_value as they are, and
\* goes on to the end of the iteration.
C9_UnparsableIsSuccess ==
    [][UnparsablePriceReturned =>
          /\ rows' = Append(rows, <<cleaned_names[idx], LastReq.price[1]>>)
          /\ success_count' = success_count + 1
          /\ fail_count' = fail_count
          /\ total_value' = total_value
          /\ pc' = "cooldown"]_vars

\* the second item's price string did not parse: the total is still the
\* first item's value, and the loop went on
C9_Witness ==
    /\ pc = "loop"
    /\ Len(rows) = 2
    /\ rows[1][2] = Price100
    /\ rows[2][2] = PriceNA
    /\ success_count = 2
    /\ fail_count = 0
    /\ total_value = Float100

\* the delay owed after the row of item i
DelayAfter(i) == IF Failed(rows[i]) THEN ERROR_DELAY ELSE SUCCESS_DELAY

\* C10: the first request of an item is sent no sooner than SUCCESS_DELAY
\* after the row of the item before it when that item obtained a price
\* string, and no sooner than ERROR_DELAY when it ended as failed.
C10_DelayBetweenItems ==
    /\ (pc = "request" /\ reqs = <<>> /\ idx > 1) =>
          since_row >= DelayAfter(idx - 1)
    /\ (reqs # <<>> /\ idx > 1) =>
          reqs[1].after_row >= DelayAfter(idx - 1)

C10_Witness ==
    /\ idx = 2
    /\ reqs # <<>>
    /\ Failed(rows[1])
    /\ reqs[1].after_row = ERROR_DELAY

\* the number of items whose iteration has run to its end
Completed ==
    IF pc \in {"request", "backoff", "returned", "cooldown"} THEN idx - 1
    ELSE idx

\* C11: the cooldown pauses taken so far are those after the items
\* COOLDOWN_EVERY, 2 * COOLDOWN_EVERY, ... up to the last completed item,
\* one each, whatever the rows of these items; a finished run over n items
\* took n \div COOLDOWN_EVERY of them; a cooldown pause lasts COOLDOWN_TIME
\* and directly follows the success or error delay of its item; no other
\* sleep of the run is a cooldown pause.
C11_CooldownEveryNth ==
    /\ cooldowns = [k \in 1..(Completed \div COOLDOWN_EVERY) |->
                        k * COOLDOWN_EVERY]
    /\ pc = "done" =>
          Len(cooldowns) = Len(cleaned_names) \div COOLDOWN_EVERY
    /\ \A i \in 1..Len(sleeps) :
          /\ sleeps[i].line = 278 <=> sleeps[i].d = COOLDOWN_TIME
          /\ sleeps[i].line = 278 =>
                /\ idx % COOLDOWN_EVERY = 0
                /\ i = Len(sleeps)
                /\ i > 1
                /\ sleeps[i].rows = idx
                /\ sleeps[i - 1].rows = idx
                /\ sleeps[i - 1].line \in {259, 270, 274}
                /\ sleeps[i - 1].d = DelayAfter(idx)
    /\ (pc = "loop" /\ idx > 0) =>
          since_row = DelayAfter(idx)
                      + (IF idx % COOLDOWN_EVERY = 0 THEN COOLDOWN_TIME ELSE 0)

\* a finished run with two cooldown pauses, the first after a failed
\* item and the second after an item with a price
C11_Witness ==
    /\ pc = "done"
    /\ Len(cleaned_names) > 2 * COOLDOWN_EVERY
    /\ cooldowns = <<COOLDOWN_EVERY, 2 * COOLDOWN_EVERY>>
    /\ Failed(rows[COOLDOWN_EVERY])
    /\ ~Failed(rows[2 * COOLDOWN_EVERY])

\* the sleeps of the current iteration taken before its row is appended
BeforeRow == {i \in 1..Len(sleeps) : sleeps[i].rows < idx}

\* the sleeps of the current iteration taken after its row is appended
AfterRow == {i \in 1..Len(sleeps) : sleeps[i].rows = idx}

\* the requests of the current item that ended without an answer to return
FailedReqs ==
    {k \in 1..Len(reqs) : reqs[k].outcome \in {"transport", "unsuccessful"}}

\* the current item is resolved and every request of it failed
AllRequestsFailed ==
    /\ pc = "cooldown"
    /\ FailedReqs = 1..Len(reqs)

\* the success delay, the error delay of a failed item and the cooldown
\* are slept after the row of the item is appended, and nothing else is
ItemDelaysAfterRow ==
    \A i \in 1..Len(sleeps) :
        sleeps[i].line \in {259, 270, 274, 278} <=> i \in AfterRow

\* C12 as stated: the item delays come after the row, and a sleep before
\* the row is an error delay between two consecutive primary requests; an
\* item whose every request failed has slept, before its row, no more than
\* the delays between its requests, and one error delay after it.
C12_OnlyBetweenPrimaryAttempts ==
    /\ ItemDelaysAfterRow
    /\ pc = "cooldown" =>
          \A i \in BeforeRow :
              /\ sleeps[i].d = ERROR_DELAY
              /\ sleeps[i].reqs >= 1
              /\ sleeps[i].reqs < Len(reqs)
              /\ reqs[sleeps[i].reqs].stage = "primary"
              /\ reqs[sleeps[i].reqs + 1].stage = "primary"
    /\ AllRequestsFailed =>
          /\ Cardinality(BeforeRow) <= Len(reqs) - 1
          /\ \A i \in AfterRow : sleeps[i].d = ERROR_DELAY
          /\ Cardinality(AfterRow) = 1

\* C12, amended: the item delays come after the row; a sleep before the
\* row is the error delay of line 140, slept once after every request that
\* failed (transport failure or success = false), the last primary request
\* and the fallback request included, and after no other request; an item
\* whose every request failed has slept MAX_RETRIES + 1 error delays
\* before its row and one error delay after it.
C12_BackoffAfterEveryFailure ==
    /\ ItemDelaysAfterRow
    /\ \A i \in BeforeRow :
          /\ sleeps[i].line = 140
          /\ sleeps[i].d = ERROR_DELAY
          /\ sleeps[i].reqs \in FailedReqs
          /\ \A j \in BeforeRow : sleeps[j].reqs = sleeps[i].reqs => j = i
    /\ \A k \in FailedReqs :
          (k < Len(reqs) \/ pc \in {"returned", "cooldown"}) =>
              \E i \in BeforeRow : sleeps[i].reqs = k
    /\ AllRequestsFailed =>
          /\ Len(reqs) = MAX_RETRIES + 1
          /\ Cardinality(BeforeRow) = MAX_RETRIES + 1
          /\ Cardinality(AfterRow) = 1
          /\ \A i \in AfterRow :
                sleeps[i].line = 274 /\ sleeps[i].d = ERROR_DELAY

\* every request of the item failed: a back-off after each of the primary
\* requests and after the fallback request, then the row, then line 274
C12_Witness ==
    /\ AllRequestsFailed
    /\ reqs[Len(reqs)].stage = "fallback"
    /\ Len(sleeps) = MAX_RETRIES + 2
    /\ sleeps[MAX_RETRIES].reqs = MAX_RETRIES
    /\ sleeps[MAX_RETRIES + 1].reqs = MAX_RETRIES + 1
    /\ sleeps[MAX_RETRIES + 1].line = 140
    /\ sleeps[MAX_RETRIES + 2].line = 274

\* the responses with status 200, a JSON body and success
OkResponses ==
    {resp \in FieldResponses : /\ resp.kind = "http"
                               /\ resp.status = 200
                               /\ resp.json # None
                               /\ resp.json[1].success}

\* the lowest-price field when it is present and not empty, otherwise the
\* median-price field
Chosen(d) ==
    IF d.lowest_price # None /\ d.lowest_price # Some(<<>>)
    THEN d.lowest_price
    ELSE d.median_price

\* C13: a request answered with status 200 and success takes the lowest
\* price when that field is present and not empty and the median price
\* otherwise; when the string so chosen is not empty the call returns it
\* as the item's price string, and when it is absent or empty the call
\* returns without a price string.
C13_LowestThenMedian ==
    [][\A resp \in OkResponses :
          Request(resp) =>
              /\ pc' = "returned"
              /\ IF Chosen(resp.json[1]) \notin {None, Some(<<>>)}
                 THEN /\ reqs'[Len(reqs')].outcome = "price"
                      /\ reqs'[Len(reqs')].price = Chosen(resp.json[1])
                      /\ ret'[1] = Chosen(resp.json[1])
                 ELSE /\ reqs'[Len(reqs')].outcome = "noprice"
                      /\ reqs'[Len(reqs')].price = None
                      /\ ret' = <<None, None>>]_vars

\* the price string of the row is the one only the median-price field
\* holds: the lowest price was absent or empty
C13_Witness ==
    /\ pc = "cooldown"
    /\ LastReq.outcome = "price"
    /\ LastReq.price = Some(Price550)
    /\ rows[idx][2] = Price550

\* the character c occurs in s
Has(s, c) == \E i \in 1..Len(s) : s[i] = c

\* s without its characters c
Without(s, c) == SelectSeq(s, LAMBDA x : x # c)

\* s with every c replaced by d
Subst(s, c, d) == [i \in 1..Len(s) |-> IF s[i] = c THEN d ELSE s[i]]

\* the value of the first numeral of s, None when s has none
NumeralValue(s) ==
    IF SearchNumeral(s) = None THEN None
    ELSE Some(float(SearchNumeral(s)[1][1], SearchNumeral(s)[1][2]))

\* the value the claim gives to a price string: with both ',' and '.' in
\* the text that is left of it without the currency markers the commas are
\* removed, with ',' and no '.' each comma becomes the decimal point
ClaimedValue(p) ==
    IF Has(StripCurrency(p), ",") /\ Has(StripCurrency(p), ".")
    THEN NumeralValue(Without(StripCurrency(p), ","))
    ELSE IF Has(StripCurrency(p), ",")
         THEN NumeralValue(Subst(StripCurrency(p), ",", "."))
         ELSE NumeralValue(StripCurrency(p))

\* ClaimedValue for every price string of the parser runs
ClaimedTable == {<<p, ClaimedValue(p)>> : p \in ParserPrices}

\* the value of the decimal-comma rule for every price string of the
\* parser runs
DecimalCommaTable ==
    {<<p, NumeralValue(Subst(StripCurrency(p), ",", "."))>> :
        p \in ParserPrices}

\* the floats 2450.0, 1.23456, 1234.5, 56.49 and 12.5
Float2450 == FloatOf(2450, 0)

Float1c23456 == FloatOf(123456, 5)

Float1234c5 == FloatOf(12345, 1)

Float56c49 == FloatOf(5649, 2)

Float12c5 == FloatOf(125, 1)

\* C14: the parsed value returned with a price string is the one of the
\* separator rules in their order: "2,450.00" gives 2450, "1.234,56" is
\* read with '.' as the decimal point and gives 1.23456, never the value
\* of the decimal-comma rule; "56,49" followed by the hryvnia sign gives
\* 56.49; and that value is what the item adds to the total.
C14_SeparatorOrder ==
    (pc \in {"returned", "cooldown"} /\ LastReq.outcome = "price") =>
        /\ ret[2] = Lookup(ClaimedTable, ret[1][1])
        /\ ret[1][1] = Price2450 => ret[2] = Some(Float2450)
        /\ ret[1][1] = Price1234c56 => ret[2] = Some(Float1c23456)
        /\ ret[1][1] = PricePeso1234 => ret[2] = Some(Float1234c5)
        /\ ret[1][1] = Price5649 => ret[2] = Some(Float56c49)
        /\ ret[1][1] = Price12c5 => ret[2] = Some(Float12c5)
        /\ (Has(ret[1][1], ",") /\ Has(ret[1][1], ".")) =>
              ret[2] # Lookup(DecimalCommaTable, ret[1][1])
        /\ pc = "cooldown" =>
              total_value = IF ret[2] = None THEN FloatZero ELSE ret[2][1]

\* "2,450.00" was returned by the fallback request and added 2450
C14_Witness ==
    /\ pc = "cooldown"
    /\ LastReq.stage = "fallback"
    /\ rows[1][2] = Price2450
    /\ total_value = Float2450

\* a name that is too short, or made of digits, commas and periods only
ShortOrNumeric(nm) ==
    \/ Len(nm) < 2
    \/ \A i \in 1..Len(nm) : nm[i] \in Digits \cup {",", "."}

\* C15: no name a primary request is sent for, and no name of a row, is
\* in its normalized and trimmed form shorter than 2 characters or made
\* of digits, commas and periods only; "5", "12,345" and single-character
\* text blocks give no candidate, no request and no row.
C15_NoShortOrNumericName ==
    /\ \A i \in StageReqs("primary") : ~ShortOrNumeric(reqs[i].name)
    /\ \A i \in 1..Len(rows) : ~ShortOrNumeric(rows[i][1])
    /\ (pc # "ocr" /\ results \in {<<<<"5">>>>, <<<<"a">>>>, <<Twelve345>>}) =>
          /\ cleaned_names = <<>>
          /\ reqs = <<>>
          /\ rows = <<>>

\* the typographic quotation marks
CurlyQuotes == {"U+2018", "U+2019", "U+201C", "U+201D"}

\* C16: no name a request is sent for holds a typographic quotation mark,
\* and the text block "Dragon\u2019s Blade" is queried as "Dragon's Blade".
C16_NoCurlyQuotes ==
    \A i \in StageReqs("primary") :
        /\ \A k \in 1..Len(reqs[i].name) : reqs[i].name[k] \notin CurlyQuotes
        /\ results = <<DragonsBladeCurly>> => reqs[i].name = DragonsBlade

\* a UI count token: x or X and digits
CountToken(nm) ==
    /\ Len(nm) >= 2
    /\ nm[1] \in {"x", "X"}
    /\ \A i \in 2..Len(nm) : nm[i] \in Digits

\* C19: no fallback request carries an empty name, the filter having
\* dropped the UI count tokens such as "x5" from which the removal of the
\* leading quantity marker leaves nothing.
C19_NoEmptyName ==
    \A i \in 1..Len(reqs) :
        reqs[i].stage = "fallback" =>
            /\ reqs[i].name # <<>>
            /\ ~CountToken(cleaned_names[idx])

\* the result file begins with the header line, then has the rows in
\* row order, each with its name and its price string or marker, then the
\* blank line
HeaderRowsBlank ==
    /\ Len(report[1]) >= Len(rows) + 2
    /\ report[1][1].kind = "header"
    /\ \A i \in 1..Len(rows) :
          report[1][i + 1] =
              [kind |-> "row", name |-> rows[i][1], price |-> rows[i][2]]
    /\ report[1][Len(rows) + 2].kind = "blank"

\* the kinds of the records that follow the blank line
SummaryKinds ==
    [i \in 1..(Len(report[1]) - Len(rows) - 2) |->
        report[1][Len(rows) + 2 + i].kind]

\* no row holds a line break in its name or in its price string
SingleLineRows ==
    \A i \in 1..Len(rows) :
        ~Has(rows[i][1], "\n") /\ ~Has(rows[i][2], "\n")

\* C17 as stated: header, one line per row, a blank line, four summary
\* lines; n + 6 lines for n rows.
C17_FourSummaryLines ==
    report # None =>
        /\ HeaderRowsBlank
        /\ Len(SummaryKinds) = 4
        /\ FileLines(report[1]) = Len(rows) + 6

\* C17, amended: header, the rows in row order, a blank line, and five
\* summary lines: generation time, total items, success count, fail
\* count, total value, with the values the run ended with; when no name
\* and no price string holds a line break the file has n + 7 lines for n
\* rows, one per row.
C17_FiveSummaryLines ==
    report # None =>
        /\ HeaderRowsBlank
        /\ SummaryKinds =
              <<"generated", "total_items", "success", "failed",
                "total_value">>
        /\ report[1][Len(rows) + 4].value = Len(cleaned_names)
        /\ report[1][Len(rows) + 5].value = success_count
        /\ report[1][Len(rows) + 6].value = fail_count
        /\ report[1][Len(rows) + 7].value = total_value
        /\ SingleLineRows => FileLines(report[1]) = Len(rows) + 7

\* a written report of two single-line rows, one of them failed
C17_Witness ==
    /\ pc = "done"
    /\ Len(rows) = 2
    /\ SingleLineRows
    /\ Failed(rows[1])
    /\ ~Failed(rows[2])
    /\ FileLines(report[1]) = 9

\* the smaller of the success delay and the error delay
MinDelay == IF SUCCESS_DELAY <= ERROR_DELAY THEN SUCCESS_DELAY ELSE ERROR_DELAY

\* request i of the current item is not the first request of the run
HasPredecessor(i) == i > 1 \/ idx > 1

\* C18 as stated: every request but the first of the run is sent at least
\* MinDelay after the request before it, the fallback request after a
\* primary request answered with success and no price too.
C18_EveryRequestPaced ==
    \A i \in 1..Len(reqs) : HasPredecessor(i) => reqs[i].gap >= MinDelay

\* C18, amended: every request but the first of the run is sent at least
\* MinDelay after the request before it (ERROR_DELAY after a failed
\* request of the same item), except the fallback request of an item
\* whose primary request was answered with success and no price: that one
\* follows at once.
C18_PacedExceptAfterNoPrice ==
    \A i \in 1..Len(reqs) :
        HasPredecessor(i) =>
            IF i > 1 /\ reqs[i - 1].outcome = "noprice"
            THEN reqs[i].stage = "fallback" /\ reqs[i].gap = 0
            ELSE /\ reqs[i].gap >= MinDelay
                 /\ i > 1 => reqs[i].gap >= ERROR_DELAY

\* the second item: its first request waited for the delay of the first
\* item, failed, was retried after the back-off and answered with success
\* and no price, and the fallback request followed at once
C18_Witness ==
    /\ idx = 2
    /\ Len(reqs) = 3
    /\ reqs[1].gap >= MinDelay
    /\ reqs[1].outcome = "transport"
    /\ reqs[2].gap = ERROR_DELAY
    /\ reqs[2].outcome = "noprice"
    /\ reqs[3].stage = "fallback"
    /\ reqs[3].gap = 0

=============================================================================
